---- MODULE Spec2Model ----
(***************************************************************************)
(* Model of the streaming chat relay: the /chat handler of api/routes.py   *)
(* (workflow_stream and response_stream), the delta-stream transport of    *)
(* api/workflow_client.py and the SQLite store of api/chat_store.py.       *)
(*                                                                         *)
(* A behaviour follows one chat request; the other HTTP requests that     *)
(* touch the same store (POST /conversations, DELETE /conversations/{id})  *)
(* interleave with it at every step.  Text is a sequence of tokens, so     *)
(* that concatenation is \o and the empty string is <<>>.                  *)
(***************************************************************************)
EXTENDS Integers, Sequences, FiniteSets, TLC

\* ---------------------------------------------------------------- bounds
MaxMsgs == 1        \* incoming messages of one chat request
MaxEvents == 3      \* upstream events consumed in one turn
MaxConvs == 1       \* conversation ids ever generated
MaxOther == 1       \* appends of other turns that interleave with the turn

\* ------------------------------------------------------------ vocabulary
\* an absent value; for the conversation id of a request also the empty
\* string, which `if chat_request.conversation_id:` treats alike
None == "None"
\* str(uuid.uuid4()): the n-th id generated
ConvId(n) == ToString(n)
ConvIds == {ConvId(n) : n \in 1..MaxConvs}
\* msg.role is a free string of the request; the store accepts two values
RequestRoles == {"user", "assistant", "system"}
StoredRoles == {"user", "assistant"}
Contents == {<<"Hi">>}
Deltas == {<<>>, <<"a">>}
ItemIds == {"i1", "i2"}

VARIABLES
    config,             \* app.state: which clients are configured
    conversations,      \* table conversations: the ids present
    messages,           \* table messages: rows in id order
    conv_seq,           \* conversation ids generated so far
    msg_seq,            \* AUTOINCREMENT counter of messages.id
    updated_at,         \* conversations.updated_at: id -> time of the last touch
    pc,                 \* position of the request in flight
    req,                \* chat_request: conversation_id, messages
    conversation_id,    \* the handler's resolved conversation id
    n_appended,         \* incoming messages appended so far
    history_messages,   \* history loaded from the store
    prompt_messages,    \* system prompt: plain, or with retrieved context
    frames,             \* SSE frames yielded to the client, in order
    accumulated,        \* accumulated_response / accumulated_message
    items_content,      \* transport: item id -> accumulated text
    item_order,         \* transport: item ids in registration order
    current_item_id,    \* transport: item the next delta attaches to
    event,              \* transport: the upstream event being handled
    final_answer,       \* transport: final answer, once determined
    transport,          \* transport resources: client, remote conversation
    n_events,           \* upstream events consumed in this turn
    upstream,           \* upstream event sequence: idle/open/ended/faulted/cancelled
    requests,           \* upstream requests issued in this turn
    fault,              \* the exception `e` an except clause of the generator caught
    chunk,              \* workflow_stream: the chunk last received from the transport
    log                 \* store appends that succeeded in this turn

storeVars == <<conversations, messages, conv_seq, msg_seq, updated_at>>
clientVars == <<items_content, item_order, current_item_id, event, final_answer, transport>>
turnVars == <<pc, req, conversation_id, n_appended, history_messages, prompt_messages, frames,
              accumulated, n_events, upstream, requests, fault, chunk, log>>
vars == <<config, storeVars, turnVars, clientVars>>

\* ----------------------------------------------------------------- store
\* conversation_exists: SELECT 1 FROM conversations WHERE id = ?
conversation_exists(c) == c \in conversations

\* an INSERT on a connection without PRAGMA foreign_keys = ON
insert_accepted_no_fk(c, role) == role \in StoredRoles

\* The INSERT of append_message is accepted iff the CHECK on role and the
\* FOREIGN KEY on conversation_id (PRAGMA foreign_keys = ON) both hold.
insert_accepted(c, role) == role \in StoredRoles /\ c \in conversations

\* CURRENT_TIMESTAMP: the time of a conversation's creation is 0, the time of
\* an append is the id of the row it inserts.
CreationTime == 0
touched(c) == [updated_at EXCEPT ![c] = msg_seq + 1]
with_conversation(c) ==
    [k \in DOMAIN updated_at \cup {c} |-> IF k = c THEN CreationTime ELSE updated_at[k]]

\* The row append_message inserts.
new_row(c, role, content) ==
    [id |-> msg_seq + 1, conversation_id |-> c, role |-> role, content |-> content]

\* a read that returns the newest rows first (ORDER BY ... DESC)
get_messages_desc(c, limit, offset) ==
    LET rows == SelectSeq(messages, LAMBDA m : m.conversation_id = c)
        desc == [k \in 1..Len(rows) |-> rows[Len(rows) + 1 - k]]
        first == offset + 1
        last == IF offset + limit < Len(rows) THEN offset + limit ELSE Len(rows)
    IN  SubSeq(desc, first, last)

\* get_messages: the rows of the conversation in (created_at, id) order,
\* LIMIT limit OFFSET offset.  Rows are kept in id order and created_at
\* (CURRENT_TIMESTAMP at insertion) never decreases with id.
get_messages(c, limit, offset) ==
    LET rows == SelectSeq(messages, LAMBDA m : m.conversation_id = c)
        first == offset + 1
        last == IF offset + limit < Len(rows) THEN offset + limit ELSE Len(rows)
    IN  SubSeq(rows, first, last)

DefaultLimit == 200

\* routes.py builds the history from role and content of every row read.
history_of(c) ==
    LET rows == get_messages(c, DefaultLimit, 0)
    IN  [k \in 1..Len(rows) |-> [role |-> rows[k].role, content |-> rows[k].content]]

\* DELETE FROM conversations WHERE id = ?, with ON DELETE CASCADE on messages.
rows_after_delete(c) == SelectSeq(messages, LAMBDA m : m.conversation_id # c)

\* ------------------------------------------------------------ exceptions
\* An exception is its type, str(e) (= e.args[0]) and, for an HTTP error,
\* its response body: absent, malformed, or one carrying the
\* content_filter_result `rai`.
Categories == <<"hate", "violence">>
Severities == {None, "medium"}
\* content_filter_result: category -> {filtered, severity?}, in payload order
RaiDicts ==
    [1..Len(Categories) -> [filtered : BOOLEAN, severity : Severities]]
NoRai == [k \in 1..Len(Categories) |-> [filtered |-> FALSE, severity |-> None]]

IntegrityError ==
    [type |-> "IntegrityError", msg |-> <<"constraint failed">>, body |-> "none", rai |-> NoRai]
ApiError ==
    [type |-> "APIError", msg |-> <<"upstream failed">>, body |-> "none", rai |-> NoRai]
\* asyncio.CancelledError(): no args, str(e) is empty
CancelledError ==
    [type |-> "CancelledError", msg |-> <<>>, body |-> "none", rai |-> NoRai]
\* no exception caught
NoFault == [type |-> None, msg |-> <<>>, body |-> "none", rai |-> NoRai]
ChatFaults ==
    {[type |-> "HttpResponseError", msg |-> <<"(content_filter)">>, body |-> "rai", rai |-> r] :
        r \in RaiDicts}
    \cup {[type |-> "HttpResponseError", msg |-> <<"(content_filter)">>,
           body |-> "malformed", rai |-> NoRai],
          [type |-> "ServiceResponseError", msg |-> <<"connection lost">>,
           body |-> "none", rai |-> NoRai]}

\* ---------------------------------------------------------------- frames
ConversationFrame(c) == [type |-> "conversation", conversation_id |-> c]
MessageFrame(text) == [type |-> "message", content |-> text]
DeltaFrame(id, text) == [type |-> "message_delta", id |-> id, content |-> text]
SummaryFrame(text) == [type |-> "completion_summary", final_answer |-> text]
CompletedFrame(text) == [type |-> "completed_message", content |-> text]
StreamEndFrame == [type |-> "stream_end"]

\* A chunk is what the transport yields: json.dumps of a dict, or (from a
\* transport that does not keep to that) text that json.loads rejects.
json_dumps(data) == [json |-> TRUE, data |-> data]
RawChunk == [json |-> FALSE, data |-> [type |-> None]]
NoChunk == [json |-> FALSE, data |-> [type |-> "NoChunk"]]
\* json.loads(chunk) succeeds
json_loads_ok(c) == c.json
json_loads(c) == c.data

\* number of frames of a type in a frame sequence
CountType(fs, t) == Cardinality({k \in 1..Len(fs) : fs[k].type = t})

\* ----------------------------------------------- routes.py: error texts
RECURSIVE FilterErrorsAll(_, _)
\* a list of errors that names every category of the payload, filtered or not
FilterErrorsAll(rai, k) ==
    IF k > Len(Categories) THEN <<>>
    ELSE LET v == rai[k]
             entry == IF v.severity # None
                        THEN <<Categories[k], ", severity: ", v.severity>>
                        ELSE <<Categories[k]>>
         IN  <<entry>> \o FilterErrorsAll(rai, k + 1)

RECURSIVE FilterErrors(_, _)
\* the list `errors` of response_stream, built from rai_dict.items()[k..]
FilterErrors(rai, k) ==
    IF k > Len(Categories) THEN <<>>
    ELSE LET v == rai[k]
             entry == IF v.severity # None
                        THEN <<Categories[k], ", severity: ", v.severity>>
                        ELSE <<Categories[k]>>
         IN  IF v.filtered THEN <<entry>> \o FilterErrors(rai, k + 1)
             ELSE FilterErrors(rai, k + 1)

RECURSIVE Join(_)
\* ', '.join(errors)
Join(errors) ==
    IF errors = <<>> THEN <<>>
    ELSE IF Len(errors) = 1 THEN errors[1]
    ELSE errors[1] \o <<", ">> \o Join(Tail(errors))

\* the text response_stream puts in completed_message for exception e
error_response(e) ==
    IF "(content_filter)" \in {e.msg[k] : k \in 1..Len(e.msg)} /\ e.body = "rai"
    THEN <<"We have found the next safety issues in the response: ">>
         \o Join(FilterErrors(e.rai, 1))
    ELSE e.msg

\* the text workflow_stream puts in completed_message for exception e
workflow_error_response(e) == <<"Error calling workflow: ">> \o e.msg

\* ------------------------------------------- workflow_client.py helpers
\* _messages_to_transcript: one line per message with a known role, and a
\* trailing "Assistant:" line unless the last line is an assistant line.
messages_to_transcript(msgs) ==
    LET known == SelectSeq(msgs, LAMBDA m : m.role \in {"system", "user", "assistant"})
        lines == [k \in 1..Len(known) |->
                    [prefix |-> IF known[k].role = "system" THEN "System"
                                ELSE IF known[k].role = "user" THEN "User"
                                ELSE "Assistant",
                     content |-> known[k].content]]
    IN  IF lines = <<>> THEN <<>>
        ELSE IF lines[Len(lines)].prefix # "Assistant"
             THEN Append(lines, [prefix |-> "Assistant", content |-> <<>>])
             ELSE lines

\* a final answer taken from the item registered first
first_item_content(order, content) ==
    IF order # <<>> THEN content[order[1]] ELSE <<>>

\* final answer: content of the last id of item_order, "" without items
last_item_content(order, content) ==
    IF order # <<>> THEN content[order[Len(order)]] ELSE <<>>

NoTransport == [client |-> "none", conversation |-> "none"]

\* a finally block without the handlers around its two steps: a failed
\* deletion leaves the block before the close, a failed close escapes too
cleanup_unguarded(t, delete_fails, close_fails) ==
    IF t.client = "none" THEN t
    ELSE IF t.conversation = "created" /\ delete_fails THEN t
    ELSE [client |-> IF close_fails THEN "close_escaped" ELSE "close_attempted",
          conversation |-> IF t.conversation = "created"
                           THEN "delete_attempted" ELSE t.conversation]

\* the finally block of stream_conversation: the deletion of the remote
\* conversation is attempted when one was created, then the close of the
\* client; an exception of either is swallowed, so the outcome of an attempt
\* leaves no trace in the program.
cleanup(t, delete_fails, close_fails) ==
    [client |-> IF t.client = "none" THEN "none" ELSE "close_attempted",
     conversation |-> IF t.client # "none" /\ t.conversation = "created"
                      THEN "delete_attempted" ELSE t.conversation]

\* -------------------------------------------------------- upstream events
NoItem == [type |-> "unknown", id |-> "unknown", action_id |-> "", status |-> ""]
Items ==
    [type : {"message", "workflow_action"}, id : ItemIds,
     action_id : {"a1"}, status : {"running"}]
\* outside the loop over the stream there is no event
NoEvent == [type |-> None, delta |-> <<>>, item |-> NoItem]
IgnoredTypes ==
    {"response.output_text.done", "response.output_item.done", "response.created",
     "response.completed", "response.content_part.added"}
\* events of the responses stream; getattr defaults stand for absent fields
WorkflowEvents ==
    {[type |-> "response.output_text.delta", delta |-> d, item |-> NoItem] : d \in Deltas}
    \cup {[type |-> "response.output_item.added", delta |-> <<>>, item |-> it] :
            it \in Items \cup {NoItem}}
    \cup {[type |-> t, delta |-> <<>>, item |-> NoItem] : t \in IgnoredTypes \cup {"error"}}
\* events of the chat-completions stream: choices may be empty, and the
\* first choice's delta.content may be empty
ChatEvents ==
    {[choices |-> FALSE, content |-> <<>>]}
    \cup {[choices |-> TRUE, content |-> d] : d \in Deltas}

Requests ==
    {[conversation_id |-> c, messages |-> ms] :
        c \in ConvIds \cup {None},
        ms \in UNION {[1..n -> [role : RequestRoles, content : Contents]] : n \in 0..MaxMsgs}}

Configs ==
    {[workflow_client |-> TRUE, search_index_manager |-> FALSE],
     [workflow_client |-> FALSE, search_index_manager |-> FALSE],
     [workflow_client |-> FALSE, search_index_manager |-> TRUE]}

NoRequest == [conversation_id |-> None, messages |-> <<>>]
NoItems == [k \in {} |-> <<>>]

\* ------------------------------------------------------------------ Init
Init ==
    /\ config \in Configs
    /\ conversations = {}
    /\ messages = <<>>
    /\ conv_seq = 0
    /\ msg_seq = 0
    /\ updated_at = [c \in {} |-> CreationTime]
    /\ pc = "idle"
    /\ req = NoRequest
    /\ conversation_id = None
    /\ n_appended = 0
    /\ history_messages = <<>>
    /\ prompt_messages = "plain"
    /\ frames = <<>>
    /\ accumulated = <<>>
    /\ items_content = NoItems
    /\ item_order = <<>>
    /\ current_item_id = "default"
    /\ event = NoEvent
    /\ final_answer = <<>>
    /\ transport = NoTransport
    /\ n_events = 0
    /\ upstream = "idle"
    /\ requests = <<>>
    /\ fault = NoFault
    /\ chunk = NoChunk
    /\ log = <<>>

\* ----------------------------------------------------- other HTTP requests
\* POST /conversations: create_conversation with a fresh uuid
CreateConversation ==
    /\ conv_seq < MaxConvs
    /\ conv_seq' = conv_seq + 1
    /\ conversations' = conversations \cup {ConvId(conv_seq + 1)}
    /\ updated_at' = with_conversation(ConvId(conv_seq + 1))
    /\ UNCHANGED <<config, fault, chunk, messages, msg_seq, turnVars, clientVars>>

\* DELETE /conversations/{id}: 404 unless it exists, else delete with cascade
DeleteConversation(c) ==
    /\ conversation_exists(c)
    /\ conversations' = conversations \ {c}
    /\ messages' = rows_after_delete(c)
    /\ updated_at' = [k \in DOMAIN updated_at \ {c} |-> updated_at[k]]
    /\ UNCHANGED <<config, fault, chunk, conv_seq, msg_seq, turnVars, clientVars>>

\* ------------------------------------------------- the append of a message
\* an append that puts the new row in front of the stored ones
AppendedFirst(c, role, content, source) ==
    /\ insert_accepted(c, role)
    /\ messages' = <<new_row(c, role, content)>> \o messages
    /\ msg_seq' = msg_seq + 1
    /\ log' = Append(log, [conversation_id |-> c, role |-> role, content |-> content,
                           source |-> source, upstream |-> upstream])
    /\ updated_at' = touched(c)
    /\ UNCHANGED <<conversations, conv_seq>>

\* append_message as called by the chat handler: the accepted INSERT adds the
\* row and is recorded in the turn's log; the caller handles the rejection.
AppendedNoTouch(c, role, content, source) ==
    /\ insert_accepted(c, role)
    /\ messages' = Append(messages, new_row(c, role, content))
    /\ msg_seq' = msg_seq + 1
    /\ log' = Append(log, [conversation_id |-> c, role |-> role, content |-> content,
                           source |-> source, upstream |-> upstream])
    /\ UNCHANGED <<conversations, conv_seq, updated_at>>

Appended(c, role, content, source) ==
    /\ insert_accepted(c, role)
    /\ messages' = Append(messages, new_row(c, role, content))
    /\ msg_seq' = msg_seq + 1
    /\ log' = Append(log, [conversation_id |-> c, role |-> role, content |-> content,
                           source |-> source, upstream |-> upstream])
    /\ updated_at' = touched(c)
    /\ UNCHANGED <<conversations, conv_seq>>

\* ----------------------------------------------------- POST /chat: handler
\* a handler that resolves every supplied id without the existence check
ResolveUnchecked(r) ==
    /\ r.conversation_id # None
    /\ pc' = "start"
    /\ conversation_id' = r.conversation_id
    /\ UNCHANGED storeVars

\* resolve the conversation: a supplied id must exist (else HTTP 404), and
\* without an id a conversation is created
Resolve(r) ==
    IF r.conversation_id # None
    THEN /\ IF conversation_exists(r.conversation_id)
            THEN pc' = "start" /\ conversation_id' = r.conversation_id
            ELSE pc' = "not_found" /\ conversation_id' = None
         /\ UNCHANGED storeVars
    ELSE /\ conv_seq < MaxConvs
         /\ conv_seq' = conv_seq + 1
         /\ conversations' = conversations \cup {ConvId(conv_seq + 1)}
         /\ conversation_id' = ConvId(conv_seq + 1)
         /\ updated_at' = with_conversation(ConvId(conv_seq + 1))
         /\ pc' = "start"
         /\ UNCHANGED <<messages, msg_seq>>

\* chat_stream_handler up to the StreamingResponse
ChatRequest(r) ==
    /\ pc = "idle"
    /\ req' = r
    /\ Resolve(r)
    /\ UNCHANGED <<config, fault, chunk, n_appended, history_messages, prompt_messages, frames,
                   accumulated, n_events, upstream, requests, log, clientVars>>

\* ------------------------------------------ the generators' common prefix
\* a conversation frame that carries the id of the request, not the resolved one
YieldConversationRequested ==
    /\ pc = "start"
    /\ frames' = Append(frames, ConversationFrame(req.conversation_id))
    /\ pc' = "persist_user"
    /\ UNCHANGED <<config, fault, chunk, storeVars, req, conversation_id, n_appended,
                   history_messages, prompt_messages, accumulated, n_events, upstream,
                   requests, log, clientVars>>

\* yield the conversation frame (routes.py 223 and 300)
YieldConversation ==
    /\ pc = "start"
    /\ frames' = Append(frames, ConversationFrame(conversation_id))
    /\ pc' = "persist_user"
    /\ UNCHANGED <<config, fault, chunk, storeVars, req, conversation_id, n_appended,
                   history_messages, prompt_messages, accumulated, n_events, upstream, requests, log,
                   clientVars>>

\* one iteration of `for msg in incoming_messages: append_message(...)`;
\* a rejected INSERT raises out of the generator (no handler encloses it)
AppendIncoming ==
    /\ pc = "persist_user"
    /\ n_appended < Len(req.messages)
    /\ LET msg == req.messages[n_appended + 1]
       IN  IF insert_accepted(conversation_id, msg.role)
           THEN /\ Appended(conversation_id, msg.role, msg.content, "incoming")
                /\ n_appended' = n_appended + 1
                /\ pc' = pc
           ELSE /\ pc' = "crashed"
                /\ UNCHANGED <<storeVars, log, n_appended>>
    /\ UNCHANGED <<config, fault, chunk, req, conversation_id, history_messages, prompt_messages, frames,
                   accumulated, n_events, upstream, requests, clientVars>>

\* a generator that loads the history and goes on to the upstream without
\* waiting for the loop over the incoming messages to finish
LoadHistoryEarly ==
    /\ pc = "persist_user"
    /\ history_messages' = history_of(conversation_id)
    /\ prompt_messages' = "plain"
    /\ pc' = IF config.workflow_client THEN "wf_open"
             ELSE IF config.search_index_manager THEN "search"
             ELSE "chat_call"
    /\ UNCHANGED <<config, fault, chunk, storeVars, req, conversation_id, n_appended, frames,
                   accumulated, n_events, upstream, requests, log, clientVars>>

\* history_messages = [... for message in chat_store.get_messages(conversation_id)]
LoadHistory ==
    /\ pc = "persist_user"
    /\ n_appended = Len(req.messages)
    /\ history_messages' = history_of(conversation_id)
    /\ prompt_messages' = "plain"
    /\ pc' = IF config.workflow_client THEN "wf_open"
             ELSE IF config.search_index_manager THEN "search"
             ELSE "chat_call"
    /\ UNCHANGED <<config, fault, chunk, storeVars, req, conversation_id, n_appended, frames,
                   accumulated, n_events, upstream, requests, log, clientVars>>

\* ------------------------------------------------ routes.py: workflow path
\* what the loop body of workflow_stream adds to accumulated_response for
\* one parsed chunk: the content of a chunk of type "message" only
accumulate(acc, data) ==
    IF data.type \in {"message", "completed_message"} /\ "content" \in DOMAIN data
    THEN (IF data.type = "message" THEN acc \o data.content ELSE acc)
    ELSE acc

RECURSIVE accumulate_all(_, _)
accumulate_all(acc, chunks) ==
    IF chunks = <<>> THEN acc
    ELSE accumulate_all(accumulate(acc, Head(chunks)), Tail(chunks))

\* the steps after the `async for` of workflow_stream: persist the assistant
\* response when it is non-empty, then yield stream_end; a rejected INSERT
\* is caught by `except Exception`, which yields a completed_message
PersistAndEnd ==
    IF accumulated # <<>> /\ ~insert_accepted(conversation_id, "assistant")
    THEN /\ fault' = IntegrityError
         /\ frames' = Append(frames, CompletedFrame(workflow_error_response(IntegrityError)))
         /\ pc' = "wf_except_end"
         /\ UNCHANGED <<storeVars, log>>
    ELSE /\ IF accumulated # <<>>
            THEN Appended(conversation_id, "assistant", accumulated, "response")
            ELSE UNCHANGED <<storeVars, log>>
         /\ frames' = Append(frames, StreamEndFrame)
         /\ pc' = "done"
         /\ UNCHANGED fault

\* an except block that logs and re-raises instead of yielding frames
WorkflowExceptReraise(e) ==
    /\ fault' = e
    /\ pc' = "crashed"
    /\ UNCHANGED frames

\* `except Exception as e` of workflow_stream: yield the error text
WorkflowExcept(e) ==
    /\ fault' = e
    /\ frames' = Append(frames, CompletedFrame(workflow_error_response(e)))
    /\ pc' = "wf_except_end"

\* a transport whose delta frames carry the text accumulated so far for the
\* item instead of the delta
TransportStepCumulative(content, order, current, ev) ==
    LET register(c, o, id) ==
            IF id \in DOMAIN c THEN [content |-> c, order |-> o]
            ELSE [content |-> [k \in DOMAIN c \cup {id} |-> IF k = id THEN <<>> ELSE c[k]],
                  order |-> Append(o, id)]
        same == [content |-> content, order |-> order, current |-> current, chunks |-> <<>>]
    IN  CASE ev.type = "response.output_text.delta" ->
                IF ev.delta # <<>>
                THEN LET r == register(content, order, current)
                     IN  [content |-> [r.content EXCEPT ![current] = @ \o ev.delta],
                          order |-> r.order,
                          current |-> current,
                          chunks |-> <<DeltaFrame(current, r.content[current] \o ev.delta)>>]
                ELSE same
          [] ev.type = "response.output_item.added" ->
                LET r == register(content, order, ev.item.id)
                    msg == <<"[workflow_action] ", ev.item.action_id, " status=",
                             ev.item.status>>
                IN  IF ev.item.type = "workflow_action"
                    THEN [content |-> [r.content EXCEPT ![ev.item.id] = @ \o msg],
                          order |-> r.order,
                          current |-> ev.item.id,
                          chunks |-> <<DeltaFrame(ev.item.id, msg)>>]
                    ELSE [content |-> r.content, order |-> r.order,
                          current |-> ev.item.id, chunks |-> <<>>]
          [] ev.type = "error" ->
                [same EXCEPT !.chunks = <<MessageFrame(<<"[Error event] ", "event">>)>>]
          [] OTHER -> same

\* a transport that narrates every item that starts, of whatever kind
TransportStepNarrateAll(content, order, current, ev) ==
    LET register(c, o, id) ==
            IF id \in DOMAIN c THEN [content |-> c, order |-> o]
            ELSE [content |-> [k \in DOMAIN c \cup {id} |-> IF k = id THEN <<>> ELSE c[k]],
                  order |-> Append(o, id)]
        same == [content |-> content, order |-> order, current |-> current, chunks |-> <<>>]
    IN  CASE ev.type = "response.output_text.delta" ->
                IF ev.delta # <<>>
                THEN LET r == register(content, order, current)
                     IN  [content |-> [r.content EXCEPT ![current] = @ \o ev.delta],
                          order |-> r.order,
                          current |-> current,
                          chunks |-> <<DeltaFrame(current, ev.delta)>>]
                ELSE same
          [] ev.type = "response.output_item.added" ->
                LET r == register(content, order, ev.item.id)
                    msg == <<"[workflow_action] ", ev.item.action_id, " status=",
                             ev.item.status>>
                IN  IF ev.item.type \in {"workflow_action", "message"}
                    THEN [content |-> [r.content EXCEPT ![ev.item.id] = @ \o msg],
                          order |-> r.order,
                          current |-> ev.item.id,
                          chunks |-> <<DeltaFrame(ev.item.id, msg)>>]
                    ELSE [content |-> r.content, order |-> r.order,
                          current |-> ev.item.id, chunks |-> <<>>]
          [] ev.type = "error" ->
                [same EXCEPT !.chunks = <<MessageFrame(<<"[Error event] ", "event">>)>>]
          [] OTHER -> same

\* a transport that appends an id to the item order at every registration
TransportStepReRegister(content, order, current, ev) ==
    LET register(c, o, id) ==
            IF id \in DOMAIN c THEN [content |-> c, order |-> Append(o, id)]
            ELSE [content |-> [k \in DOMAIN c \cup {id} |-> IF k = id THEN <<>> ELSE c[k]],
                  order |-> Append(o, id)]
        same == [content |-> content, order |-> order, current |-> current, chunks |-> <<>>]
    IN  CASE ev.type = "response.output_text.delta" ->
                IF ev.delta # <<>>
                THEN LET r == register(content, order, current)
                     IN  [content |-> [r.content EXCEPT ![current] = @ \o ev.delta],
                          order |-> r.order,
                          current |-> current,
                          chunks |-> <<DeltaFrame(current, ev.delta)>>]
                ELSE same
          [] ev.type = "response.output_item.added" ->
                LET r == register(content, order, ev.item.id)
                    msg == <<"[workflow_action] ", ev.item.action_id, " status=",
                             ev.item.status>>
                IN  IF ev.item.type = "workflow_action"
                    THEN [content |-> [r.content EXCEPT ![ev.item.id] = @ \o msg],
                          order |-> r.order,
                          current |-> ev.item.id,
                          chunks |-> <<DeltaFrame(ev.item.id, msg)>>]
                    ELSE [content |-> r.content, order |-> r.order,
                          current |-> ev.item.id, chunks |-> <<>>]
          [] ev.type = "error" ->
                [same EXCEPT !.chunks = <<MessageFrame(<<"[Error event] ", "event">>)>>]
          [] OTHER -> same

\* ------------------------------------- workflow_client.stream_conversation
\* the handling of one event of the responses stream: the new accumulator,
\* item order and current item, and the chunks yielded (none or one)
TransportStep(content, order, current, ev) ==
    LET register(c, o, id) ==
            IF id \in DOMAIN c THEN [content |-> c, order |-> o]
            ELSE [content |-> [k \in DOMAIN c \cup {id} |-> IF k = id THEN <<>> ELSE c[k]],
                  order |-> Append(o, id)]
        same == [content |-> content, order |-> order, current |-> current, chunks |-> <<>>]
    IN  CASE ev.type = "response.output_text.delta" ->
                IF ev.delta # <<>>
                THEN LET r == register(content, order, current)
                     IN  [content |-> [r.content EXCEPT ![current] = @ \o ev.delta],
                          order |-> r.order,
                          current |-> current,
                          chunks |-> <<DeltaFrame(current, ev.delta)>>]
                ELSE same
          [] ev.type = "response.output_item.added" ->
                LET r == register(content, order, ev.item.id)
                    msg == <<"[workflow_action] ", ev.item.action_id, " status=",
                             ev.item.status>>
                IN  IF ev.item.type = "workflow_action"
                    THEN [content |-> [r.content EXCEPT ![ev.item.id] = @ \o msg],
                          order |-> r.order,
                          current |-> ev.item.id,
                          chunks |-> <<DeltaFrame(ev.item.id, msg)>>]
                    ELSE [content |-> r.content, order |-> r.order,
                          current |-> ev.item.id, chunks |-> <<>>]
          [] ev.type = "error" ->
                [same EXCEPT !.chunks = <<MessageFrame(<<"[Error event] ", "event">>)>>]
          [] OTHER -> same

\* start of stream_conversation: an empty transcript returns without a chunk;
\* otherwise get_openai_client() and conversations.create()
WfOpen ==
    /\ pc = "wf_open"
    /\ IF messages_to_transcript(history_messages) = <<>>
       THEN /\ PersistAndEnd
            /\ UNCHANGED <<transport, requests, upstream>>
       ELSE \E outcome \in {"ok", "no_client", "create_fails"} :
            /\ requests' = requests
            /\ CASE outcome = "ok" ->
                    /\ transport' = [client |-> "open", conversation |-> "created"]
                    /\ pc' = "wf_request"
                    /\ UNCHANGED <<frames, upstream, fault>>
                 [] outcome = "no_client" ->
                    /\ transport' = NoTransport
                    /\ upstream' = "faulted"
                    /\ WorkflowExcept(ApiError)
                 [] outcome = "create_fails" ->
                    /\ upstream' = "faulted"
                    /\ \E df, cf \in BOOLEAN :
                         transport' = cleanup([client |-> "open", conversation |-> "none"], df, cf)
                    /\ WorkflowExcept(ApiError)
            /\ UNCHANGED <<storeVars, log>>
    /\ UNCHANGED <<config, chunk, req, conversation_id, n_appended, history_messages, prompt_messages,
                   accumulated, n_events, event, items_content, item_order,
                   current_item_id, final_answer>>

\* a transport that issues the request again when it fails
WfRequestRetry ==
    /\ pc = "wf_request"
    /\ requests' = Append(requests, [transport |-> "workflow",
                                     input |-> messages_to_transcript(history_messages)])
    /\ \/ /\ upstream' = "open"
          /\ items_content' = NoItems
          /\ item_order' = <<>>
          /\ current_item_id' = "default"
          /\ pc' = "wf_stream"
       \/ /\ upstream' = "faulted"
          /\ pc' = "wf_request"
          /\ UNCHANGED <<items_content, item_order, current_item_id>>
    /\ UNCHANGED <<config, fault, chunk, frames, transport, storeVars, req, conversation_id,
                   n_appended, history_messages, prompt_messages, accumulated, n_events,
                   log, event, final_answer>>

\* responses.create(conversation, agent, input=transcript, stream=True)
WfRequest ==
    /\ pc = "wf_request"
    /\ requests' = Append(requests, [transport |-> "workflow",
                                     input |-> messages_to_transcript(history_messages)])
    /\ \/ /\ upstream' = "open"
          /\ items_content' = NoItems
          /\ item_order' = <<>>
          /\ current_item_id' = "default"
          /\ pc' = "wf_stream"
          /\ UNCHANGED <<frames, transport, fault>>
       \/ /\ upstream' = "faulted"
          /\ (\E df, cf \in BOOLEAN : transport' = cleanup(transport, df, cf))
          /\ WorkflowExcept(ApiError)
          /\ UNCHANGED <<items_content, item_order, current_item_id>>
    /\ UNCHANGED <<config, chunk, storeVars, req, conversation_id, n_appended,
                   history_messages, prompt_messages, accumulated, n_events, log, event,
                   final_answer>>

\* one iteration of `async for event in stream`, and of the loop of
\* workflow_stream for the chunk it yields
WfEvent(ev) ==
    /\ pc = "wf_stream"
    /\ n_events < MaxEvents
    /\ n_events' = n_events + 1
    /\ event' = ev
    /\ LET r == TransportStep(items_content, item_order, current_item_id, ev)
       IN  /\ items_content' = r.content
           /\ item_order' = r.order
           /\ current_item_id' = r.current
           /\ frames' = frames \o r.chunks
           /\ chunk' = IF r.chunks # <<>> THEN json_dumps(r.chunks[Len(r.chunks)]) ELSE chunk
           /\ accumulated' = accumulate_all(accumulated, r.chunks)
    /\ UNCHANGED <<config, fault, storeVars, pc, req, conversation_id, n_appended,
                   history_messages, prompt_messages, upstream, requests, log, final_answer, transport>>

\* the stream ends: determine the final answer and yield completion_summary
WfStreamEnd ==
    /\ pc = "wf_stream"
    /\ event' = NoEvent
    /\ upstream' = "ended"
    /\ final_answer' = last_item_content(item_order, items_content)
    /\ frames' = Append(frames, SummaryFrame(final_answer'))
    /\ chunk' = json_dumps(SummaryFrame(final_answer'))
    /\ accumulated' = accumulate(accumulated, SummaryFrame(final_answer'))
    /\ pc' = "wf_final"
    /\ UNCHANGED <<config, fault, storeVars, req, conversation_id, n_appended,
                   history_messages, prompt_messages, n_events, requests, log, items_content, item_order,
                   current_item_id, transport>>

\* the stream raises: WorkflowInvocationError after the finally block
WfStreamFault ==
    /\ pc = "wf_stream"
    /\ event' = NoEvent
    /\ upstream' = "faulted"
    /\ (\E df, cf \in BOOLEAN : transport' = cleanup(transport, df, cf))
    /\ WorkflowExcept(ApiError)
    /\ UNCHANGED <<config, chunk, storeVars, req, conversation_id, n_appended,
                   history_messages, prompt_messages, accumulated, n_events, requests, log, items_content,
                   item_order, current_item_id, final_answer>>

\* yield completed_message with the final answer
WfFinal ==
    /\ pc = "wf_final"
    /\ frames' = Append(frames, CompletedFrame(final_answer))
    /\ chunk' = json_dumps(CompletedFrame(final_answer))
    /\ accumulated' = accumulate(accumulated, CompletedFrame(final_answer))
    /\ pc' = "wf_cleanup"
    /\ UNCHANGED <<config, fault, storeVars, req, conversation_id, n_appended,
                   history_messages, prompt_messages, n_events, upstream, requests, log, clientVars>>

\* the finally block on the normal end, then the rest of workflow_stream
WfCleanup ==
    /\ pc = "wf_cleanup"
    /\ (\E df, cf \in BOOLEAN : transport' = cleanup(transport, df, cf))
    /\ PersistAndEnd
    /\ UNCHANGED <<config, chunk, req, conversation_id, n_appended, history_messages, prompt_messages,
                   accumulated, n_events, upstream, requests, event, items_content, item_order,
                   current_item_id, final_answer>>

\* the second yield of the except block: stream_end
WfExceptEnd ==
    /\ pc = "wf_except_end"
    /\ frames' = Append(frames, StreamEndFrame)
    /\ pc' = "done"
    /\ UNCHANGED <<config, fault, chunk, storeVars, req, conversation_id, n_appended,
                   history_messages, prompt_messages, accumulated, n_events, upstream, requests, log,
                   clientVars>>

\* --------------------------------------- routes.py: chat-completions path
\* an except block that swallows the exception without a frame
ChatExceptSilent(e) ==
    /\ fault' = e
    /\ pc' = "chat_end"
    /\ UNCHANGED frames

\* `except BaseException as e` of response_stream: yield the error text
ChatExcept(e) ==
    /\ fault' = e
    /\ frames' = Append(frames, CompletedFrame(error_response(e)))
    /\ pc' = "chat_end"

\* context = await search_index_manager.search(chat_request): a context
\* found replaces the system prompt; a failure raises out of the generator
Search ==
    /\ pc = "search"
    /\ \/ pc' = "chat_call" /\ prompt_messages' \in {"plain", "rag"}
       \/ pc' = "crashed" /\ UNCHANGED prompt_messages
    /\ UNCHANGED <<config, fault, chunk, storeVars, req, conversation_id, n_appended,
                   history_messages, frames, accumulated, n_events, upstream, requests,
                   log, clientVars>>

\* chat_client.complete(messages=prompt_messages + history_messages, stream=True)
ChatCall ==
    /\ pc = "chat_call"
    /\ requests' = Append(requests, [transport |-> "chat",
                                     input |-> <<prompt_messages, history_messages>>])
    /\ \/ /\ upstream' = "open"
          /\ pc' = "chat_stream"
          /\ UNCHANGED <<frames, fault>>
       \/ /\ upstream' = "faulted"
          /\ \E e \in ChatFaults : ChatExcept(e)
    /\ UNCHANGED <<config, chunk, storeVars, req, conversation_id, n_appended,
                   history_messages, prompt_messages, accumulated, n_events, log,
                   clientVars>>

\* a loop body that also persists every delta as it arrives
ChatEventPersistEach(ev) ==
    /\ pc = "chat_stream"
    /\ n_events < MaxEvents
    /\ n_events' = n_events + 1
    /\ IF ev.choices /\ ev.content # <<>>
       THEN /\ accumulated' = accumulated \o ev.content
            /\ frames' = Append(frames, MessageFrame(ev.content))
            /\ IF insert_accepted(conversation_id, "assistant")
               THEN Appended(conversation_id, "assistant", ev.content, "response")
               ELSE UNCHANGED <<storeVars, log>>
       ELSE UNCHANGED <<accumulated, frames, storeVars, log>>
    /\ UNCHANGED <<config, fault, chunk, pc, req, conversation_id, n_appended, history_messages,
                   prompt_messages, upstream, requests, clientVars>>

\* one iteration of `async for event in chat_coroutine`
ChatEvent(ev) ==
    /\ pc = "chat_stream"
    /\ n_events < MaxEvents
    /\ n_events' = n_events + 1
    /\ IF ev.choices /\ ev.content # <<>>
       THEN /\ accumulated' = accumulated \o ev.content
            /\ frames' = Append(frames, MessageFrame(ev.content))
       ELSE UNCHANGED <<accumulated, frames>>
    /\ UNCHANGED <<config, fault, chunk, storeVars, pc, req, conversation_id, n_appended,
                   history_messages, prompt_messages, upstream, requests, log, clientVars>>

\* the stream ends: yield completed_message with the accumulated text
ChatStreamEnd ==
    /\ pc = "chat_stream"
    /\ upstream' = "ended"
    /\ frames' = Append(frames, CompletedFrame(accumulated))
    /\ pc' = "chat_persist"
    /\ UNCHANGED <<config, fault, chunk, storeVars, req, conversation_id, n_appended,
                   history_messages, prompt_messages, accumulated, n_events, requests, log,
                   clientVars>>

\* the stream raises after some events
ChatStreamFault ==
    /\ pc = "chat_stream"
    /\ upstream' = "faulted"
    /\ \E e \in ChatFaults : ChatExcept(e)
    /\ UNCHANGED <<config, chunk, storeVars, req, conversation_id, n_appended,
                   history_messages, prompt_messages, accumulated, n_events, requests, log,
                   clientVars>>

\* persist the assistant response when it is non-empty, then yield
\* stream_end; a rejected INSERT is caught by `except BaseException`
ChatPersist ==
    /\ pc = "chat_persist"
    /\ IF accumulated # <<>> /\ ~insert_accepted(conversation_id, "assistant")
       THEN /\ ChatExcept(IntegrityError)
            /\ UNCHANGED <<storeVars, log>>
       ELSE /\ IF accumulated # <<>>
               THEN Appended(conversation_id, "assistant", accumulated, "response")
               ELSE UNCHANGED <<storeVars, log>>
            /\ frames' = Append(frames, StreamEndFrame)
            /\ pc' = "done"
            /\ UNCHANGED fault
    /\ UNCHANGED <<config, chunk, req, conversation_id, n_appended, history_messages,
                   prompt_messages, accumulated, n_events, upstream, requests, clientVars>>

\* after the except block: yield stream_end
ChatEnd ==
    /\ pc = "chat_end"
    /\ frames' = Append(frames, StreamEndFrame)
    /\ pc' = "done"
    /\ UNCHANGED <<config, fault, chunk, storeVars, req, conversation_id, n_appended,
                   history_messages, prompt_messages, accumulated, n_events, upstream,
                   requests, log, clientVars>>

\* ------------------------------------------------------------ cancellation
\* the generator is suspended at a yield or at an await of the upstream
Suspended ==
    \/ pc = "persist_user" /\ n_appended = 0
    \/ pc \in {"search", "wf_open", "wf_request", "wf_stream", "wf_final", "wf_cleanup",
               "wf_except_end", "chat_call", "chat_stream", "chat_persist", "chat_end"}

\* a cancellation path that saves the partial text before it ends
CancelPersistPartial ==
    /\ Suspended
    /\ event' = NoEvent
    /\ pc' = IF transport.client = "open" THEN "wf_closing" ELSE "cancelled"
    /\ IF accumulated # <<>> /\ insert_accepted(conversation_id, "assistant")
       THEN Appended(conversation_id, "assistant", accumulated, "response")
       ELSE UNCHANGED <<storeVars, log>>
    /\ UNCHANGED <<config, fault, chunk, req, conversation_id, n_appended, history_messages,
                   prompt_messages, frames, accumulated, n_events, upstream, requests,
                   items_content, item_order,
                   current_item_id, final_answer, transport>>

\* The client disconnects and the response's generator is closed where it is
\* suspended (GeneratorExit at a yield, CancelledError at an await outside
\* response_stream's try block).  Neither generator persists or yields a
\* delivered frame on that path: workflow_stream lets the exception through
\* (`except Exception`), response_stream catches a GeneratorExit (`except
\* BaseException`) and its yield of completed_message then ends the close
\* with a RuntimeError.  The transport generator, when open, is finalized
\* afterwards.
Cancel ==
    /\ Suspended
    /\ event' = NoEvent
    /\ pc' = IF transport.client = "open" THEN "wf_closing" ELSE "cancelled"
    /\ UNCHANGED <<config, fault, chunk, storeVars, req, conversation_id, n_appended,
                   history_messages, prompt_messages, frames, accumulated, n_events,
                   upstream, requests, log, items_content, item_order,
                   current_item_id, final_answer, transport>>

\* The request's task is cancelled while response_stream awaits the upstream
\* inside its try block: `except BaseException` catches the CancelledError,
\* and the generator goes on to yield completed_message (and stream_end, if
\* it is iterated further, else Cancel closes it).
ChatCancelSwallowed ==
    /\ pc \in {"chat_call", "chat_stream"}
    /\ upstream' = "cancelled"
    /\ ChatExcept(CancelledError)
    /\ UNCHANGED <<config, chunk, storeVars, req, conversation_id, n_appended,
                   history_messages, prompt_messages, accumulated, n_events, requests, log,
                   clientVars>>

\* the finally block of stream_conversation when the generator is closed
WfFinalize ==
    /\ pc = "wf_closing"
    /\ (\E df, cf \in BOOLEAN : transport' = cleanup(transport, df, cf))
    /\ pc' = "cancelled"
    /\ UNCHANGED <<config, fault, chunk, storeVars, req, conversation_id, n_appended,
                   history_messages, prompt_messages, frames, accumulated, n_events,
                   upstream, requests, log, event, items_content, item_order, current_item_id,
                   final_answer>>

\* ------------------------------------------------------------------- Next
Next ==
    \/ CreateConversation
    \/ \E c \in ConvIds : DeleteConversation(c)
    \/ \E r \in Requests : ChatRequest(r)
    \/ YieldConversation
    \/ AppendIncoming
    \/ LoadHistory
    \/ WfOpen
    \/ WfRequest
    \/ \E ev \in WorkflowEvents : WfEvent(ev)
    \/ WfStreamEnd
    \/ WfStreamFault
    \/ WfFinal
    \/ WfCleanup
    \/ WfExceptEnd
    \/ Search
    \/ ChatCall
    \/ \E ev \in ChatEvents : ChatEvent(ev)
    \/ ChatStreamEnd
    \/ ChatStreamFault
    \/ ChatPersist
    \/ ChatEnd
    \/ Cancel
    \/ ChatCancelSwallowed
    \/ WfFinalize

Spec == Init /\ [][Next]_vars

\* ------------------------------ the turn's prefix on a store that is in use
\* The store as earlier turns left it: conversation 1 with n messages, the
\* user and assistant messages of those turns in turn.
OldContent == <<"old">>
OtherContent == <<"other">>
StoredLens == {0, 1, DefaultLimit - 1, DefaultLimit}

earlier_rows(c, n) ==
    [k \in 1..n |-> [id |-> k, conversation_id |-> c,
                     role |-> IF k % 2 = 1 THEN "user" ELSE "assistant",
                     content |-> OldContent]]

InitStore ==
    /\ config \in Configs
    /\ conversations = {ConvId(1)}
    /\ \E n \in StoredLens : /\ messages = earlier_rows(ConvId(1), n)
                             /\ msg_seq = n
                             /\ updated_at = [c \in {ConvId(1)} |-> n]
    /\ conv_seq = 1
    /\ pc = "idle"
    /\ req = NoRequest
    /\ conversation_id = None
    /\ n_appended = 0
    /\ history_messages = <<>>
    /\ prompt_messages = "plain"
    /\ frames = <<>>
    /\ accumulated = <<>>
    /\ items_content = NoItems
    /\ item_order = <<>>
    /\ current_item_id = "default"
    /\ event = NoEvent
    /\ final_answer = <<>>
    /\ transport = NoTransport
    /\ n_events = 0
    /\ upstream = "idle"
    /\ requests = <<>>
    /\ fault = NoFault
    /\ chunk = NoChunk
    /\ log = <<>>

\* append_message called by the generator of another chat request on the
\* same store (its incoming messages, its assistant response)
OtherAppend(c, role) ==
    /\ Cardinality({k \in DOMAIN messages : messages[k].content = OtherContent}) < MaxOther
    /\ insert_accepted(c, role)
    /\ messages' = Append(messages, new_row(c, role, OtherContent))
    /\ msg_seq' = msg_seq + 1
    /\ updated_at' = touched(c)
    /\ UNCHANGED <<config, fault, chunk, conversations, conv_seq, turnVars, clientVars>>

NextStore ==
    \/ \E c \in ConvIds : DeleteConversation(c)
    \/ \E c \in ConvIds, role \in StoredRoles : OtherAppend(c, role)
    \/ \E r \in Requests : ChatRequest(r)
    \/ YieldConversation
    \/ AppendIncoming
    \/ LoadHistory

SpecStore == InitStore /\ [][NextStore]_vars

\* ------------------------ the loop of workflow_stream over any chunk source
\* The loop body of workflow_stream (routes.py 239-269) takes whatever text
\* the transport yields.  Here the transport's stream is open, after a
\* request with one user message on a new conversation, and between the
\* chunks of its events the loop is also handed chunks of other origin,
\* among them text that is not JSON.
JSONDecodeError ==
    [type |-> "JSONDecodeError", msg |-> <<"Expecting value">>, body |-> "none", rai |-> NoRai]
RelayChunks ==
    {json_dumps(MessageFrame(<<"a">>)), json_dumps(DeltaFrame("i1", <<"a">>)), RawChunk}

InitRelay ==
    LET c == ConvId(1)
        m == [role |-> "user", content |-> <<"Hi">>]
    IN  /\ config = [workflow_client |-> TRUE, search_index_manager |-> FALSE]
        /\ conversations = {c}
        /\ messages = <<[id |-> 1, conversation_id |-> c, role |-> m.role,
                         content |-> m.content]>>
        /\ conv_seq = 1
        /\ msg_seq = 1
        /\ updated_at = [k \in {c} |-> 1]
        /\ pc = "wf_stream"
        /\ req = [conversation_id |-> None, messages |-> <<m>>]
        /\ conversation_id = c
        /\ n_appended = 1
        /\ history_messages = <<m>>
        /\ prompt_messages = "plain"
        /\ frames = <<ConversationFrame(c)>>
        /\ accumulated = <<>>
        /\ items_content = NoItems
        /\ item_order = <<>>
        /\ current_item_id = "default"
        /\ event = NoEvent
        /\ final_answer = <<>>
        /\ transport = [client |-> "open", conversation |-> "created"]
        /\ n_events = 0
        /\ upstream = "open"
        /\ requests = <<[transport |-> "workflow",
                         input |-> messages_to_transcript(<<m>>)]>>
        /\ fault = NoFault
        /\ chunk = NoChunk
        /\ log = <<[conversation_id |-> c, role |-> m.role, content |-> m.content,
                    source |-> "incoming", upstream |-> "idle"]>>

\* a loop body without the handler of json.JSONDecodeError: the exception
\* of a chunk that is not JSON reaches `except Exception`
RelayChunkStrict(ch) ==
    /\ pc = "wf_stream"
    /\ n_events < MaxEvents
    /\ n_events' = n_events + 1
    /\ chunk' = ch
    /\ event' = NoEvent
    /\ IF json_loads_ok(ch)
       THEN /\ accumulated' = accumulate(accumulated, json_loads(ch))
            /\ frames' = Append(frames, json_loads(ch))
            /\ UNCHANGED <<pc, fault>>
       ELSE /\ WorkflowExcept(JSONDecodeError)
            /\ UNCHANGED accumulated
    /\ UNCHANGED <<config, storeVars, req, conversation_id, n_appended, history_messages,
                   prompt_messages, upstream, requests, log, items_content, item_order,
                   current_item_id, final_answer, transport>>

\* one iteration of the loop of workflow_stream for a chunk ch: parse it,
\* accumulate the content of a chunk of type message, forward it; a chunk
\* that json.loads rejects is logged and dropped
RelayChunk(ch) ==
    /\ pc = "wf_stream"
    /\ n_events < MaxEvents
    /\ n_events' = n_events + 1
    /\ chunk' = ch
    /\ event' = NoEvent
    /\ IF json_loads_ok(ch)
       THEN /\ accumulated' = accumulate(accumulated, json_loads(ch))
            /\ frames' = Append(frames, json_loads(ch))
       ELSE UNCHANGED <<accumulated, frames>>
    /\ UNCHANGED <<config, fault, storeVars, pc, req, conversation_id, n_appended,
                   history_messages, prompt_messages, upstream, requests, log,
                   items_content, item_order, current_item_id, final_answer, transport>>

NextRelay ==
    \/ \E ch \in RelayChunks : RelayChunk(ch)
    \/ \E ev \in WorkflowEvents : WfEvent(ev)
    \/ WfStreamEnd
    \/ WfStreamFault
    \/ WfFinal
    \/ WfCleanup
    \/ WfExceptEnd

SpecRelay == InitRelay /\ [][NextRelay]_vars

\* ================================================================ claims
\* the appends of the assistant response (routes.py 273 and 346) in the log
ResponseAppends == {k \in 1..Len(log) : log[k].source = "response"}
\* the frames that carried streamed text to the client
TextFrames == {k \in 1..Len(frames) : frames[k].type \in {"message", "message_delta"}}
CompletedFrames == {k \in 1..Len(frames) : frames[k].type = "completed_message"}
\* the generator has returned or raised without a cancellation
Ended == pc \in {"done", "crashed"}

\* C1: a turn whose upstream stream ended normally (also after an in-band
\* error event) or faulted (also after deltas) ends with exactly one
\* stream_end frame, and at any time a stream_end frame is only ever the
\* last frame and there is at most one.
C1_StreamEndOnceLast ==
    /\ \A k \in 1..Len(frames) : frames[k].type = "stream_end" => k = Len(frames)
    /\ (Ended /\ upstream \in {"ended", "faulted"}) =>
            /\ frames # <<>>
            /\ frames[Len(frames)].type = "stream_end"
            /\ CountType(frames, "stream_end") = 1

\* a transport fault after streamed text, ended with stream_end
C1_Witness ==
    /\ pc = "done"
    /\ upstream = "faulted"
    /\ TextFrames # {}
    /\ frames[Len(frames)].type = "stream_end"

\* C2: after the conversation frame, no failure of a later step leaves the
\* generator as an unhandled fault: a turn that has emitted frames and has
\* ended without cancellation ended with stream_end.
C2_NoUnhandledFault ==
    (frames # <<>> /\ Ended) => frames[Len(frames)].type = "stream_end"

\* C3: the frames of a turn start with the only conversation frame, and
\* every append of the turn goes to the conversation id that frame carries.
C3_ConversationFrameFirst ==
    frames # <<>> =>
        /\ frames[1].type = "conversation"
        /\ CountType(frames, "conversation") = 1
        /\ \A k \in 1..Len(log) : log[k].conversation_id = frames[1].conversation_id

\* a turn that appended an incoming message and its assistant response
C3_Witness ==
    /\ frames # <<>>
    /\ ResponseAppends # {}
    /\ \E k \in 1..Len(log) : log[k].source = "incoming"

\* C4: a chat request with an id that is not in the store ends in NotFound
\* with no frame and with the store as it was, and nothing follows it: the
\* turn emits no frame and appends nothing afterwards.
C4_UnknownConversationNotFound ==
    [][/\ (pc = "idle" /\ pc' # "idle" /\ req'.conversation_id # None
              /\ req'.conversation_id \notin conversations)
          => (pc' = "not_found" /\ frames' = <<>> /\ log' = <<>> /\ UNCHANGED storeVars)
       /\ pc = "not_found"
          => (pc' = "not_found" /\ frames' = <<>> /\ log' = <<>>)]_vars

\* a request for a conversation that was deleted before the request
C4_Witness ==
    /\ pc = "not_found"
    /\ req.conversation_id # None
    /\ conv_seq > 0
    /\ frames = <<>>

\* C5: a turn emits at most one completed_message frame.
C5_AtMostOneCompleted == CountType(frames, "completed_message") <= 1

RECURSIVE TextOf(_, _)
\* the concatenation, in order, of the content of the frames fs[k], k in ks
TextOf(fs, ks) ==
    IF ks = {} THEN <<>>
    ELSE LET k == CHOOSE x \in ks : \A y \in ks : x <= y
         IN  fs[k].content \o TextOf(fs, ks \ {k})

\* the deltas of the last-inserted item id (all deltas on the chat path,
\* whose frames carry no item id)
FinalItemDeltas ==
    IF config.workflow_client
    THEN {k \in 1..Len(frames) :
            /\ frames[k].type = "message_delta"
            /\ item_order # <<>>
            /\ frames[k].id = item_order[Len(item_order)]}
    ELSE {k \in 1..Len(frames) : frames[k].type = "message"}

\* C6: the text of a persisted assistant response is the text of the turn's
\* completed_message frame, and that is the concatenation in arrival order
\* of the deltas of the last-inserted item id.
C6_PersistedEqualsCompleted ==
    \A k \in ResponseAppends :
        /\ CompletedFrames # {}
        /\ \A j \in CompletedFrames : frames[j].content = log[k].content
        /\ log[k].content = TextOf(frames, FinalItemDeltas)

\* C7: when the upstream stream ended normally, no error was reported and
\* the final text (the text of the completed_message frame) is non-empty,
\* the turn has appended that text as its assistant response.
C7_FinalTextPersisted ==
    (/\ pc = "done"
     /\ upstream = "ended"
     /\ Cardinality(CompletedFrames) = 1
     /\ \A j \in CompletedFrames : frames[j].content # <<>>)
    => \E k \in ResponseAppends :
          /\ log[k].role = "assistant"
          /\ \A j \in CompletedFrames : log[k].content = frames[j].content

\* C8: a turn appends its assistant response at most once, and only when
\* the upstream stream has been consumed to its end; none is appended
\* while the stream is open.
C8_PersistOnceAfterStream ==
    /\ Cardinality(ResponseAppends) <= 1
    /\ \A k \in ResponseAppends : log[k].upstream \in {"ended", "faulted"}
    /\ upstream \in {"idle", "open"} => ResponseAppends = {}

\* a response persisted after two text frames
C8_Witness ==
    /\ ResponseAppends # {}
    /\ Cardinality(TextFrames) >= 2

\* C9: when the upstream faults after text was streamed, the turn has, at
\* its end, recorded an assistant response exactly once.
C9_PartialTextRecorded ==
    (pc = "done" /\ upstream = "faulted" /\ TextFrames # {})
    => Cardinality(ResponseAppends) = 1

\* C10: a turn cancelled before the upstream stream was consumed to its end
\* has appended no assistant response.
C10_CancelDiscards ==
    (\/ pc \in {"cancelled", "wf_closing"} /\ upstream \in {"idle", "open"}
     \/ upstream = "cancelled")
    => ResponseAppends = {}

\* a turn cancelled while the stream was open, after text was accumulated
C10_Witness ==
    /\ pc = "cancelled"
    /\ upstream = "open"
    /\ accumulated # <<>>
    /\ TextFrames # {}

\* C11: whenever the delta-stream transport has been left after it opened its
\* upstream resources (normal end, upstream exception, or close of the
\* generator), no further event is consumed, the close of the client has been
\* attempted and so has the deletion of a remote conversation that was
\* created, whatever the outcome of the two attempts; events are consumed
\* only while the resources are open.
TransportLeft == pc \in {"wf_except_end", "done", "crashed", "cancelled"}

C11_TransportReleased ==
    /\ TransportLeft => /\ transport.client \in {"none", "close_attempted"}
                        /\ transport.conversation \in {"none", "delete_attempted"}
    /\ pc = "wf_stream" => transport = [client |-> "open", conversation |-> "created"]
    /\ n_events > 0 /\ config.workflow_client => transport.client # "none"

\* a turn closed in mid-stream whose transport was finalized afterwards
C11_Witness ==
    /\ pc = "cancelled"
    /\ n_events > 0
    /\ transport = [client |-> "close_attempted", conversation |-> "delete_attempted"]

\* C12: the incoming messages are appended in input order, each append is made
\* before any upstream call of the turn, and once the turn has gone past its
\* prefix (towards the upstream call) every incoming message has been appended.
IncomingAppends == SelectSeq(log, LAMBDA a : a.source = "incoming")

PastPrefix ==
    pc \in {"search", "chat_call", "chat_stream", "chat_persist", "chat_end", "wf_open",
            "wf_request", "wf_stream", "wf_final", "wf_cleanup", "wf_except_end",
            "wf_closing", "done"}

StoredRows(c) == SelectSeq(messages, LAMBDA m : m.conversation_id = c)

HistoryLoaded == pc = "persist_user" /\ pc' \in {"wf_open", "search", "chat_call"}

C13_HistoryIsFullStore ==
    [][HistoryLoaded =>
         /\ Len(history_messages') = Len(StoredRows(conversation_id))
         /\ \A k \in DOMAIN history_messages' :
               /\ history_messages'[k].role = StoredRows(conversation_id)[k].role
               /\ history_messages'[k].content = StoredRows(conversation_id)[k].content]_vars

FrameTypes == {"conversation", "message", "message_delta", "completed_message", "stream_end"}

C15_FrameTypesClosed == \A k \in DOMAIN frames : frames[k].type \in FrameTypes

\* C16: a turn whose upstream raised a content-filter rejection with a
\* readable payload has exactly one completed_message frame; its text names
\* each filtered category once, with its severity when the payload gives one,
\* and no category that is not filtered; stream_end follows it directly, and
\* no assistant response is stored.
ContentFiltered ==
    /\ upstream = "faulted"
    /\ fault.type = "HttpResponseError"
    /\ fault.body = "rai"

NamesExactly(text, rai) ==
    \A j \in 1..Len(Categories) :
        LET at == {k \in 1..Len(text) : text[k] = Categories[j]}
        IN  /\ Cardinality(at) = IF rai[j].filtered THEN 1 ELSE 0
            /\ \A k \in at :
                  IF rai[j].severity # None
                  THEN /\ k + 2 <= Len(text)
                       /\ text[k + 1] = ", severity: "
                       /\ text[k + 2] = rai[j].severity
                  ELSE ~(k + 1 <= Len(text) /\ text[k + 1] = ", severity: ")

AppendStep == msg_seq' = msg_seq + 1
AppendedRow == messages'[Len(messages')]

C17_RoundTrip ==
    [][AppendStep =>
         \A c \in conversations :
            AppendedRow.conversation_id = c
            => get_messages(c, DefaultLimit, 0)'
                 = Append(get_messages(c, DefaultLimit, 0), AppendedRow)]_vars

\* C17 (amended): an append extends what get_messages returns by the
\* appended message, with the role and content that were passed, as long as
\* the conversation held fewer than `limit` messages (200 by default, or a
\* limit that covers the conversation); a read of a conversation that holds
\* `limit` messages or more returns its oldest `limit` messages, unchanged by
\* the append.
C17_RoundTripWithinLimit ==
    [][AppendStep =>
         \A c \in conversations :
            AppendedRow.conversation_id = c
            => /\ \A limit \in {DefaultLimit, Len(messages')} :
                     get_messages(c, limit, 0)'
                       = IF Len(StoredRows(c)) < limit
                         THEN Append(get_messages(c, limit, 0), AppendedRow)
                         ELSE get_messages(c, limit, 0)
               /\ log' # log
                     => /\ AppendedRow.role = req.messages[n_appended + 1].role
                        /\ AppendedRow.content = req.messages[n_appended + 1].content]_vars

\* the turn's message read back as the last of the conversation's messages,
\* after those of earlier turns and of another turn
C17_Witness ==
    /\ log # <<>>
    /\ conversation_exists(conversation_id)
    /\ LET rows == get_messages(conversation_id, DefaultLimit, 0)
       IN  /\ Len(rows) > 2
           /\ rows[Len(rows)].content = log[Len(log)].content
           /\ rows[Len(rows)].role = log[Len(log)].role
           /\ \E k \in DOMAIN rows : rows[k].content = OtherContent

\* C18: in every step the stored messages of a conversation that exists
\* before and after it are kept as they are, in their order, with new
\* messages only behind them; the rows read for its history extend likewise.
IsPrefix(a, b) == Len(a) <= Len(b) /\ SubSeq(b, 1, Len(a)) = a

C18_AppendOnly ==
    [][\A c \in conversations \cap conversations' :
         /\ IsPrefix(StoredRows(c), StoredRows(c)')
         /\ IsPrefix(get_messages(c, DefaultLimit, 0), get_messages(c, DefaultLimit, 0)')]_vars

\* messages of earlier turns, then the turn's message, then another turn's
C18_Witness ==
    /\ log # <<>>
    /\ conversation_exists(conversation_id)
    /\ LET rows == StoredRows(conversation_id)
       IN  /\ Len(rows) > 2
           /\ rows[1].content = OldContent
           /\ rows[Len(rows) - 1].content = log[Len(log)].content
           /\ rows[Len(rows)].content = OtherContent

\* C19: the completed_message the transport yields at the end of its event
\* sequence carries the accumulated text of the item id at the end of the
\* registration order, in which every id stands once, at its first
\* registration: the deltas emitted for that id, concatenated; it is empty
\* when no item was registered.
TransportCompleted ==
    {k \in CompletedFrames : k > 1 /\ frames[k - 1].type = "completion_summary"}

C19_FinalTextOfLastRegistered ==
    /\ \A j, k \in DOMAIN item_order : item_order[j] = item_order[k] => j = k
    /\ \A k \in TransportCompleted :
          /\ item_order = <<>> => frames[k].content = <<>>
          /\ item_order # <<>>
                => /\ frames[k].content = items_content[item_order[Len(item_order)]]
                   /\ frames[k].content = TextOf(frames, FinalItemDeltas)

\* two items registered, the last delta emitted for the one registered
\* first: the final text is that of the second, which has none
C19_Witness ==
    /\ pc = "done"
    /\ upstream = "ended"
    /\ item_order = <<"i1", "i2">>
    /\ current_item_id = "i1"
    /\ items_content["i1"] # <<>>
    /\ \E k \in TransportCompleted : frames[k].content = <<>>

\* C20: the step that consumes a non-empty text delta appends its text to the
\* accumulator slot of the current item, creating the slot if it is absent,
\* leaves the other slots alone and appends to the frames one message_delta
\* frame with that id and exactly that text; an empty delta changes neither.
\* The current item is "default" before the first event, the id of an
\* item-started event after it, and unchanged by every other event.
EventStep == pc = "wf_stream" /\ n_events' = n_events + 1

ErrorEventFrames ==
    {k \in 1..Len(frames) : config.workflow_client /\ frames[k].type = "message"}

C21_ErrorEventStops ==
    /\ event.type = "error" => frames[Len(frames)].type = "completed_message"
    /\ \A k \in ErrorEventFrames :
          \A j \in k + 1..Len(frames) : frames[j].type # "message_delta"

\* C22: the step that consumes an item-added event for a workflow action
\* appends exactly one message_delta frame with the item's id and a status
\* line that holds the action identifier and the status, and appends the same
\* text to the item's accumulated text; for an item of any other kind it
\* appends no frame and adds no text.
Tokens(text) == {text[k] : k \in 1..Len(text)}

C22_WorkflowActionNarrated ==
    [][(EventStep /\ event'.type = "response.output_item.added") =>
         LET it == event'.item
             old == IF it.id \in DOMAIN items_content THEN items_content[it.id] ELSE <<>>
         IN  /\ it.id \in DOMAIN items_content'
             /\ IF it.type = "workflow_action"
                THEN /\ Len(frames') = Len(frames) + 1
                     /\ SubSeq(frames', 1, Len(frames)) = frames
                     /\ frames'[Len(frames')].type = "message_delta"
                     /\ frames'[Len(frames')].id = it.id
                     /\ {it.action_id, it.status} \subseteq Tokens(frames'[Len(frames')].content)
                     /\ items_content'[it.id] = old \o frames'[Len(frames')].content
                ELSE /\ frames' = frames
                     /\ items_content'[it.id] = old]_vars

\* a workflow action starts under the id of an item that already has text
C22_Witness ==
    /\ pc = "wf_stream"
    /\ event.type = "response.output_item.added"
    /\ event.item.type = "workflow_action"
    /\ frames[Len(frames)].type = "message_delta"
    /\ frames[Len(frames)].id = event.item.id
    /\ Len(items_content[event.item.id]) > Len(frames[Len(frames)].content)

\* C23: a step that consumes an event of an ignored type (text done, item
\* done, response created, response completed, any other type) raises
\* nothing, adds no frame and leaves the item accumulator, the item order and
\* the current item as they are; a step in which the loop of workflow_stream
\* is handed a chunk that cannot be parsed adds no frame and no text and
\* leaves the turn in the loop.
IgnoredStep == EventStep /\ event'.type \in IgnoredTypes
RawChunkStep == EventStep /\ event' = NoEvent /\ chunk' = RawChunk

C23_IgnoredAndUnparsed ==
    [][/\ IgnoredStep => /\ frames' = frames
                         /\ items_content' = items_content
                         /\ item_order' = item_order
                         /\ current_item_id' = current_item_id
                         /\ accumulated' = accumulated
                         /\ pc' = "wf_stream"
                         /\ fault' = fault
       /\ RawChunkStep => /\ frames' = frames
                          /\ accumulated' = accumulated
                          /\ pc' = "wf_stream"
                          /\ fault' = fault]_vars

\* a chunk that could not be parsed was handed to the loop after text was
\* streamed: the frames end with that text, and the turn is still in the loop
C23_Witness ==
    /\ pc = "wf_stream"
    /\ chunk = RawChunk
    /\ event = NoEvent
    /\ n_events > 1
    /\ fault = NoFault
    /\ frames[Len(frames)].type \in {"message", "message_delta"}

\* C24: a turn issues at most one upstream request, to the transport its
\* configuration selects (the workflow client when configured, else the
\* chat-completions client); the resources of the workflow transport are
\* opened under that configuration only, and a turn whose upstream stream
\* ended has issued exactly one request.
ConfiguredTransport == IF config.workflow_client THEN "workflow" ELSE "chat"

C24_OneTransportOneRequest ==
    /\ Len(requests) <= 1
    /\ \A k \in DOMAIN requests : requests[k].transport = ConfiguredTransport
    /\ ~config.workflow_client => transport = NoTransport /\ item_order = <<>>
    /\ upstream \in {"open", "ended"} => Len(requests) = 1

\* a turn that ended after its only upstream request had failed
C24_Witness ==
    /\ pc = "done"
    /\ upstream = "faulted"
    /\ Len(requests) = 1
    /\ fault # NoFault

\* C25: a finished turn in which no error was reported (no exception caught,
\* no error event) has exactly one completed_message frame, directly before
\* or at least before its stream_end.
NoErrorReported == fault = NoFault /\ ErrorEventFrames = {}

C25_CompletedOnceWithoutError ==
    (pc = "done" /\ NoErrorReported)
    => /\ Cardinality(CompletedFrames) = 1
       /\ \A k \in CompletedFrames : k < Len(frames)

\* C26: the item order holds no id twice, its ids are the keys of the item
\* accumulator, and the text accumulated for an id is the concatenation, in
\* emission order, of the content of the message_delta frames emitted with
\* that id; no message_delta frame carries another id.
DeltaFramesOf(id) ==
    {k \in 1..Len(frames) : frames[k].type = "message_delta" /\ frames[k].id = id}

C26_ItemsConsistent ==
    /\ \A j, k \in DOMAIN item_order : item_order[j] = item_order[k] => j = k
    /\ {item_order[k] : k \in DOMAIN item_order} = DOMAIN items_content
    /\ \A id \in DOMAIN items_content : items_content[id] = TextOf(frames, DeltaFramesOf(id))
    /\ \A k \in 1..Len(frames) :
          frames[k].type = "message_delta" => frames[k].id \in DOMAIN items_content

\* while events are consumed: one item with two deltas, another with text
C26_Witness ==
    /\ pc = "wf_stream"
    /\ \E id \in DOMAIN items_content : Cardinality(DeltaFramesOf(id)) = 2
    /\ \E id \in DOMAIN items_content : Cardinality(DeltaFramesOf(id)) = 1
    /\ Len(item_order) = 2

\* C27: every stored message belongs to a conversation that exists; in
\* particular nothing is stored for the turn's conversation once it was
\* deleted, whether the turn appended before the deletion or tried after it.
C27_NoOrphanMessages ==
    /\ \A k \in DOMAIN messages : messages[k].conversation_id \in conversations
    /\ (conversation_id # None /\ ~conversation_exists(conversation_id))
          => StoredRows(conversation_id) = <<>>

\* the turn passed the existence check for the id it was given, the
\* conversation was deleted, and the turn's append of an acceptable message
\* failed
C27_Witness ==
    /\ pc = "crashed"
    /\ req.conversation_id # None
    /\ conversation_id = req.conversation_id
    /\ ~conversation_exists(conversation_id)
    /\ n_appended < Len(req.messages)
    /\ req.messages[n_appended + 1].role \in StoredRoles
    /\ messages = <<>>

\* a step in which append_message raises: the INSERT of the incoming message
\* or of the assistant response is rejected by the role CHECK or the foreign key
RejectedAppendStep ==
    \/ /\ pc = "persist_user"
       /\ n_appended < Len(req.messages)
       /\ ~insert_accepted(conversation_id, req.messages[n_appended + 1].role)
       /\ pc' # pc
    \/ fault # IntegrityError /\ fault' = IntegrityError

====
